---------------------------- MODULE Spec2Model ----------------------------
(***************************************************************************)
(* fbxcel-dom, v7400: the document-wide settings proxy (GlobalSettings),   *)
(* the axis decoding rule, the unit scale factor and the mesh index model. *)
(*                                                                         *)
(* Results are modelled as records: Ok(v), Err(msg) for Result<T>, and     *)
(* Panic(msg) for a call that aborts (unreachable!).  Messages are the     *)
(* format strings of the source with the back-quote written as an          *)
(* apostrophe (a TLA+ string cannot hold a back-quote).                    *)
(***************************************************************************)
EXTENDS Integers, Sequences, FiniteSets, TLC

VARIABLES
    axis,                \* load_axis_from_prop: the `axis` argument (i32)
    axis_sign,           \* load_axis_from_prop: the `axis_sign` argument (i32)
    axis_name,           \* load_axis_from_prop: the `axis_name` argument of the last call
    axis_ret,            \* what the last call of load_axis_from_prop returned
    doc,                 \* the loaded document: tree, property nodes, definitions cache
    gs,                  \* what GlobalSettings::new(doc) returned
    acc,                 \* the property key of the last raw accessor called
    acc_ret,             \* what that accessor returned
    unit_in_centimeters, \* UnitScaleFactor::new: its f64 argument
    usf,                 \* the last Result<UnitScaleFactor> produced
    cm,                  \* what UnitScaleFactor::unit_in_centimeters returned
    pc,                  \* axis_system: the step the call is at
    cur,                 \* axis_system: the axis being read (1 up, 2 front, 3 right)
    code_v,              \* axis_system: the axis code just read
    sign_v,              \* axis_system: the axis sign just read
    axes,                \* axis_system: the axes decoded so far (up, front, right)
    log,                 \* axis_system: the steps performed, in order
    sys_ret,             \* what axis_system returned
    raw,                 \* RawPolygonVertices: the wire-format index buffer
    pos,                 \* decoding: the number of raw entries scanned
    flat,                \* PolygonVertices: control point index of each polygon vertex
    ends,                \* PolygonVertices: boundary table, the end offset of each polygon
    mesh_ret,            \* what decoding the raw buffer returned
    query                \* the last index conversion asked and its answer

axisVars == <<axis, axis_sign, axis_name, axis_ret>>
docVars == <<doc, gs, acc, acc_ret>>
scaleVars == <<unit_in_centimeters, usf, cm>>
sysVars == <<pc, cur, code_v, sign_v, axes, log, sys_ret>>
meshVars == <<raw, pos, flat, ends, mesh_ret, query>>
settingsVars == <<axisVars, docVars, scaleVars, sysVars>>
vars == <<settingsVars, meshVars>>

-----------------------------------------------------------------------------
(* Bounds of the model *)

\* axis codes are drawn from -MaxAxis..MaxAxis and the two ends of i32
MaxAxis == 3
\* axis signs are drawn from -MaxSign..MaxSign and the two ends of i32
MaxSign == 2

\* the tree root has up to MaxRootChildren children
MaxRootChildren == 2
\* i32 property values of the resolution check are drawn from 0..MaxPropVal
MaxPropVal == 1

\* f64 exponent fields are drawn from 0..MaxExponent and three fixed ones
MaxExponent == 1
\* f64 mantissa fields are drawn from 0..MaxMantissa
MaxMantissa == 2

\* axis codes stored in a document are drawn from 0..MaxDocAxis
MaxDocAxis == 3
\* axis signs stored in a document are drawn from -1..MaxDocSign
MaxDocSign == 1

\* a raw polygon-vertex buffer has up to MaxRawLen entries
MaxRawLen == 7

(* Program constants *)
\* the all-ones exponent field of an f64 (infinities and NaNs)
F64_EXP_MAX == 2047
\* the exponent field of 1.0
F64_EXP_BIAS == 1023
I32_MAX == 2147483647
I32_MIN == -I32_MAX - 1

-----------------------------------------------------------------------------
(* Result<T> and aborts *)

NoRet == [kind |-> "None"]
Ok(v) == [kind |-> "Ok", value |-> v]
Err(m) == [kind |-> "Err", msg |-> m]
Panic(m) == [kind |-> "Panic", msg |-> m]

-----------------------------------------------------------------------------
(* Values the variables of the other components hold while one component
   is exercised alone *)

IdleAxis == axis = 0 /\ axis_sign = 1 /\ axis_name = "Up" /\ axis_ret = NoRet
IdleDoc == doc = NoRet /\ gs = NoRet /\ acc = "" /\ acc_ret = NoRet
IdleScale == unit_in_centimeters = NoRet /\ usf = NoRet /\ cm = NoRet
IdleSys ==
    /\ pc = "idle" /\ cur = 1 /\ code_v = 0 /\ sign_v = 0
    /\ axes = <<>> /\ log = <<>> /\ sys_ret = NoRet

IdleMesh ==
    /\ raw = <<>> /\ pos = 0 /\ flat = <<>> /\ ends = <<>>
    /\ mesh_ret = NoRet /\ query = NoRet

-----------------------------------------------------------------------------
(* Axis decoding rule *)

AxisNames == {"Up", "Front", "Coord", "OriginalUp"}

\* the error of an axis code outside 0..=2
InvalidAxisMsg(name, a) ==
    "invalid '" \o name \o "Axis' property value: expected 0, 1, or 2 but got "
        \o ToString(a)

\* the error of an axis sign that is neither 1 nor -1
InvalidAxisSignMsg(name, s) ==
    "invalid '" \o name \o "AxisSign' property value: expected 1 or -1, but got "
        \o ToString(s)

\* the message of the unreachable! branch
UnreachableMsg(name, a, s) ==
    "internal error: entered unreachable code: at least one of axis or axis sign must be invalid: axis_name=\""
        \o name \o "\", axis=" \o ToString(a) \o ", axis_sign=" \o ToString(s)

\* a decoder whose table maps the sign the wrong way round
load_axis_from_prop_swapped(name, a, s) ==
    CASE a = 0 /\ s = 1 -> Ok("NegX")
      [] a = 0 /\ s = -1 -> Ok("PosX")
      [] a = 1 /\ s = 1 -> Ok("NegY")
      [] a = 1 /\ s = -1 -> Ok("PosY")
      [] a = 2 /\ s = 1 -> Ok("NegZ")
      [] a = 2 /\ s = -1 -> Ok("PosZ")
      [] OTHER ->
            IF ~(0 <= a /\ a <= 2) THEN Err(InvalidAxisMsg(name, a))
            ELSE IF s = 1 \/ s = -1 THEN Err(InvalidAxisSignMsg(name, s))
            ELSE Panic(UnreachableMsg(name, a, s))

\* a decoder that looks at the sign before the axis code
load_axis_from_prop_sign_first(name, a, s) ==
    CASE a = 0 /\ s = 1 -> Ok("PosX")
      [] a = 0 /\ s = -1 -> Ok("NegX")
      [] a = 1 /\ s = 1 -> Ok("PosY")
      [] a = 1 /\ s = -1 -> Ok("NegY")
      [] a = 2 /\ s = 1 -> Ok("PosZ")
      [] a = 2 /\ s = -1 -> Ok("NegZ")
      [] OTHER ->
            IF ~(s = 1 \/ s = -1) THEN Err(InvalidAxisSignMsg(name, s))
            ELSE IF ~(0 <= a /\ a <= 2) THEN Err(InvalidAxisMsg(name, a))
            ELSE Panic(UnreachableMsg(name, a, s))

\* fn load_axis_from_prop(axis_name, axis, axis_sign) -> Result<SignedAxis>
load_axis_from_prop(name, a, s) ==
    CASE a = 0 /\ s = 1 -> Ok("PosX")
      [] a = 0 /\ s = -1 -> Ok("NegX")
      [] a = 1 /\ s = 1 -> Ok("PosY")
      [] a = 1 /\ s = -1 -> Ok("NegY")
      [] a = 2 /\ s = 1 -> Ok("PosZ")
      [] a = 2 /\ s = -1 -> Ok("NegZ")
      [] OTHER ->
            IF ~(0 <= a /\ a <= 2) THEN Err(InvalidAxisMsg(name, a))
            ELSE IF (s = 1) \/ (s = -1) THEN Err(InvalidAxisSignMsg(name, s))
            ELSE Panic(UnreachableMsg(name, a, s))

\* the i32 values the axis code is drawn from
AxisInputs == (-MaxAxis..MaxAxis) \cup {I32_MIN, I32_MAX}
\* the i32 values the axis sign is drawn from
AxisSignInputs == (-MaxSign..MaxSign) \cup {I32_MIN, I32_MAX}

InitAxis ==
    /\ axis \in AxisInputs
    /\ axis_sign \in AxisSignInputs
    /\ axis_name = "Up"
    /\ axis_ret = NoRet
    /\ IdleDoc
    /\ IdleScale
    /\ IdleSys
    /\ IdleMesh

\* one call of load_axis_from_prop, as up_axis, front_axis, right_axis and
\* original_up_axis make it, each with its own axis name
CallLoadAxis ==
    \E name \in AxisNames :
        /\ axis_name' = name
        /\ axis_ret' = load_axis_from_prop(name, axis, axis_sign)
        /\ UNCHANGED <<axis, axis_sign, docVars, scaleVars, sysVars, meshVars>>

NextAxis == CallLoadAxis

SpecAxis == InitAxis /\ [][NextAxis]_vars


-----------------------------------------------------------------------------
(* The document: node tree, property nodes, definitions cache *)

\* Option<T>
None == [kind |-> "None"]
Some(v) == [kind |-> "Some", value |-> v]

\* typed property values
I32(v) == [tag |-> "I32", val |-> v]
F64(v) == [tag |-> "F64", val |-> v]
Str(v) == [tag |-> "String", val |-> v]

\* NodeHandle::first_child_by_name: the first child of that name, if any
first_child_by_name(children, name) ==
    IF \E i \in 1..Len(children) : children[i].name = name
    THEN Some(children[CHOOSE i \in 1..Len(children) :
                  /\ children[i].name = name
                  /\ \A j \in 1..(i - 1) : children[j].name # name])
    ELSE None

\* DefinitionsCache::props_node_id: the property node of the class's
\* template; None when the document defines no such class
props_node_id(cache, node_name, native_typename) ==
    IF \E e \in cache : e.node_name = node_name /\ e.native_typename = native_typename
    THEN Some((CHOOSE e \in cache :
                  e.node_name = node_name /\ e.native_typename = native_typename).props)
    ELSE None

\* ObjectProperties::new (the document is passed to every lookup instead of
\* being held by reference)
ObjectProperties_new(direct_props, default_props) ==
    [direct_props |-> direct_props, default_props |-> default_props]

\* whether property node `id` of document d holds `key`
HasProp(d, id, key) == key \in DOMAIN d.props[id]

\* ObjectProperties::get: the direct scope first, then the default scope
ObjectProperties_get(d, props, key) ==
    IF props.direct_props.kind = "Some" /\ HasProp(d, props.direct_props.value, key)
    THEN Some(d.props[props.direct_props.value][key])
    ELSE IF props.default_props.kind = "Some"
             /\ HasProp(d, props.default_props.value, key)
    THEN Some(d.props[props.default_props.value][key])
    ELSE None

\* PropertyHandle::value(PrimitiveLoader::<i32>::new())
PrimitiveLoader_i32(p) ==
    IF p.tag = "I32" THEN Ok(p.val)
    ELSE Err("property type mismatch: expected i32 but got " \o p.tag)

\* PropertyHandle::value(PrimitiveLoader::<f64>::new())
PrimitiveLoader_f64(p) ==
    IF p.tag = "F64" THEN Ok(p.val)
    ELSE Err("property type mismatch: expected f64 but got " \o p.tag)

-----------------------------------------------------------------------------
(* GlobalSettings *)

\* a constructor that hands the two scopes to ObjectProperties::new the
\* wrong way round
GlobalSettings_new_scopes_swapped(d) ==
    LET global_settings_node == first_child_by_name(d.root, "GlobalSettings") IN
    IF global_settings_node.kind = "None"
    THEN Err("expected '/GlobalSettings' node but not found")
    ELSE LET p70 == first_child_by_name(global_settings_node.value.children,
                                        "Properties70")
             direct_props == IF p70.kind = "Some" THEN Some(p70.value.node_id)
                             ELSE None
             default_props == props_node_id(d.definitions_cache,
                                            "GlobalSettings", "FbxGlobalSettings")
         IN  Ok([props |-> ObjectProperties_new(default_props, direct_props)])

\* a constructor that insists on a Properties70 child
GlobalSettings_new_needs_props(d) ==
    LET global_settings_node == first_child_by_name(d.root, "GlobalSettings") IN
    IF global_settings_node.kind = "None"
    THEN Err("expected '/GlobalSettings' node but not found")
    ELSE LET p70 == first_child_by_name(global_settings_node.value.children,
                                        "Properties70")
             default_props == props_node_id(d.definitions_cache,
                                            "GlobalSettings", "FbxGlobalSettings")
         IN  IF p70.kind = "None"
             THEN Err("expected '/GlobalSettings/Properties70' node but not found")
             ELSE Ok([props |-> ObjectProperties_new(Some(p70.value.node_id),
                                                     default_props)])

\* GlobalSettings::new
GlobalSettings_new(d) ==
    LET global_settings_node == first_child_by_name(d.root, "GlobalSettings") IN
    IF global_settings_node.kind = "None"
    THEN Err("expected '/GlobalSettings' node but not found")
    ELSE LET p70 == first_child_by_name(global_settings_node.value.children,
                                        "Properties70")
             direct_props == IF p70.kind = "Some" THEN Some(p70.value.node_id)
                             ELSE None
             default_props == props_node_id(d.definitions_cache,
                                            "GlobalSettings", "FbxGlobalSettings")
         IN  Ok([props |-> ObjectProperties_new(direct_props, default_props)])

\* GlobalSettings::raw_properties
raw_properties(g) == g.props

\* the body the eight raw i32 accessors share: get(key), the not-found
\* error, then the i32 loader
raw_i32(d, g, key) ==
    LET p == ObjectProperties_get(d, g.props, key) IN
    IF p.kind = "None"
    THEN Err("expected '" \o key \o "' property but not found")
    ELSE PrimitiveLoader_i32(p.value)

up_axis_raw(d, g) == raw_i32(d, g, "UpAxis")
up_axis_sign_raw(d, g) == raw_i32(d, g, "UpAxisSign")
front_axis_raw(d, g) == raw_i32(d, g, "FrontAxis")
front_axis_sign_raw(d, g) == raw_i32(d, g, "FrontAxisSign")
coord_axis_raw(d, g) == raw_i32(d, g, "CoordAxis")
coord_axis_sign_raw(d, g) == raw_i32(d, g, "CoordAxisSign")
original_up_axis_raw(d, g) == raw_i32(d, g, "OriginalUpAxis")
original_up_axis_sign_raw(d, g) == raw_i32(d, g, "OriginalUpAxisSign")

\* GlobalSettings::unit_scale_factor_raw
unit_scale_factor_raw(d, g) ==
    LET p == ObjectProperties_get(d, g.props, "UnitScaleFactor") IN
    IF p.kind = "None"
    THEN Err("expected 'UnitScaleFactor' property but not found")
    ELSE PrimitiveLoader_f64(p.value)

\* the raw accessor reading `key`
raw_accessor(d, g, key) ==
    CASE key = "UpAxis" -> up_axis_raw(d, g)
      [] key = "UpAxisSign" -> up_axis_sign_raw(d, g)
      [] key = "FrontAxis" -> front_axis_raw(d, g)
      [] key = "FrontAxisSign" -> front_axis_sign_raw(d, g)
      [] key = "CoordAxis" -> coord_axis_raw(d, g)
      [] key = "CoordAxisSign" -> coord_axis_sign_raw(d, g)
      [] key = "OriginalUpAxis" -> original_up_axis_raw(d, g)
      [] key = "OriginalUpAxisSign" -> original_up_axis_sign_raw(d, g)
      [] key = "UnitScaleFactor" -> unit_scale_factor_raw(d, g)

\* load_axis_from_prop(name, code?, sign?): the arguments are evaluated left
\* to right and the first error returns at once
load_axis_from_results(name, code, sign) ==
    IF code.kind # "Ok" THEN code
    ELSE IF sign.kind # "Ok" THEN sign
    ELSE load_axis_from_prop(name, code.value, sign.value)

up_axis(d, g) ==
    load_axis_from_results("Up", up_axis_raw(d, g), up_axis_sign_raw(d, g))
front_axis(d, g) ==
    load_axis_from_results("Front", front_axis_raw(d, g), front_axis_sign_raw(d, g))
right_axis(d, g) ==
    load_axis_from_results("Coord", coord_axis_raw(d, g), coord_axis_sign_raw(d, g))
original_up_axis(d, g) ==
    load_axis_from_results("OriginalUp", original_up_axis_raw(d, g),
                           original_up_axis_sign_raw(d, g))

-----------------------------------------------------------------------------
(* Construction of the proxy and property resolution: SpecProps *)

\* node ids of the property nodes a document of this family holds: the
\* Properties70 of /GlobalSettings, the class template, the Properties70 of
\* another node
DirectNode == 1
TemplateNode == 2
OtherNode == 3

\* top-level nodes: /GlobalSettings with and without a Properties70 child,
\* and another node that has a Properties70 child of its own
TopNodes ==
    { [name |-> "GlobalSettings",
       children |-> <<[name |-> "Version", node_id |-> 0],
                      [name |-> "Properties70", node_id |-> DirectNode]>>],
      [name |-> "GlobalSettings",
       children |-> <<[name |-> "Version", node_id |-> 0]>>],
      [name |-> "Objects",
       children |-> <<[name |-> "Properties70", node_id |-> OtherNode]>>] }

RootShapes == UNION { [1..n -> TopNodes] : n \in 0..MaxRootChildren }

\* definitions caches: empty, the template of another class, the template
\* of (GlobalSettings, FbxGlobalSettings)
Caches ==
    { {},
      { [node_name |-> "Geometry", native_typename |-> "FbxMesh",
         props |-> TemplateNode] },
      { [node_name |-> "GlobalSettings", native_typename |-> "FbxGlobalSettings",
         props |-> TemplateNode] } }

\* property nodes: partial maps from keys to typed values
PropNodes(keys, values) == UNION { [S -> values] : S \in SUBSET keys }

TestKeys == {"UpAxis", "CoordAxisSign"}
TestValues == { I32(v) : v \in 0..MaxPropVal }

InitProps ==
    /\ \E root \in RootShapes, cache \in Caches,
          p1 \in PropNodes(TestKeys, TestValues),
          p2 \in PropNodes(TestKeys, TestValues) :
            doc = [root |-> root, definitions_cache |-> cache,
                   props |-> <<p1, p2, [k \in TestKeys |-> I32(MaxPropVal)]>>]
    /\ gs = NoRet
    /\ acc = ""
    /\ acc_ret = NoRet
    /\ IdleAxis
    /\ IdleScale
    /\ IdleSys
    /\ IdleMesh

\* Document::global_settings: GlobalSettings::new(doc)
NewGlobalSettings ==
    /\ gs = NoRet
    /\ gs' = GlobalSettings_new(doc)
    /\ UNCHANGED <<doc, acc, acc_ret, axisVars, scaleVars, sysVars, meshVars>>

\* one raw accessor of the proxy is called
CallRawAccessor ==
    /\ gs.kind = "Ok"
    /\ \E key \in TestKeys :
          /\ acc' = key
          /\ acc_ret' = raw_accessor(doc, gs.value, key)
    /\ UNCHANGED <<doc, gs, axisVars, scaleVars, sysVars, meshVars>>

NextProps == NewGlobalSettings \/ CallRawAccessor

SpecProps == InitProps /\ [][NextProps]_vars

-----------------------------------------------------------------------------
(* Unit scale factor: SpecScale *)

\* An f64 is its three bit fields: sign (1 bit), exponent (11 bits) and
\* mantissa (52 bits, of which the inputs only use small values).

\* f64::classify
classify(x) ==
    CASE x.exponent = 0 /\ x.mantissa = 0 -> "Zero"
      [] x.exponent = 0 /\ x.mantissa # 0 -> "Subnormal"
      [] x.exponent = F64_EXP_MAX /\ x.mantissa = 0 -> "Infinite"
      [] x.exponent = F64_EXP_MAX /\ x.mantissa # 0 -> "Nan"
      [] OTHER -> "Normal"

\* f64::is_normal
is_normal(x) == classify(x) = "Normal"

\* a constructor that fails when the value is normal, as the first sentence
\* of its documentation reads
UnitScaleFactor_new_inverted(x) ==
    IF is_normal(x)
    THEN Err("Expected \"normal\" floating-point number, but got " \o classify(x))
    ELSE Ok([unit_in_centimeters |-> x])

\* UnitScaleFactor::new
UnitScaleFactor_new(x) ==
    IF ~is_normal(x)
    THEN Err("Expected \"normal\" floating-point number, but got " \o classify(x))
    ELSE Ok([unit_in_centimeters |-> x])

\* UnitScaleFactor::unit_in_centimeters
UnitScaleFactor_unit_in_centimeters(self) == self.unit_in_centimeters

\* GlobalSettings::unit_scale_factor: raw().and_then(UnitScaleFactor::new)
unit_scale_factor(d, g) ==
    LET r == unit_scale_factor_raw(d, g) IN
    IF r.kind = "Ok" THEN UnitScaleFactor_new(r.value) ELSE r

\* the floats the argument is drawn from: both signs, the smallest
\* exponents, the bias (1.0), the largest finite exponent and the all-ones
\* exponent, each with a few mantissas
F64Inputs ==
    [sign : {0, 1},
     exponent : (0..MaxExponent) \cup {F64_EXP_BIAS, F64_EXP_MAX - 1, F64_EXP_MAX},
     mantissa : 0..MaxMantissa]

\* a document whose /GlobalSettings/Properties70 is the property node p
SettingsDoc(p) ==
    [root |-> <<[name |-> "GlobalSettings",
                 children |-> <<[name |-> "Version", node_id |-> 0],
                                [name |-> "Properties70",
                                 node_id |-> DirectNode]>>]>>,
     definitions_cache |-> {},
     props |-> <<p>>]

InitScale ==
    /\ unit_in_centimeters \in F64Inputs
    /\ \E p \in { [UnitScaleFactor |-> F64(unit_in_centimeters)],
                  [UnitScaleFactor |-> I32(1)],
                  [UpAxis |-> I32(1)] } : doc = SettingsDoc(p)
    /\ gs = GlobalSettings_new(doc)
    /\ acc = ""
    /\ acc_ret = NoRet
    /\ usf = NoRet
    /\ cm = NoRet
    /\ IdleAxis
    /\ IdleSys
    /\ IdleMesh

\* UnitScaleFactor::new(unit_in_centimeters), called directly
CallUnitScaleFactorNew ==
    /\ usf' = UnitScaleFactor_new(unit_in_centimeters)
    /\ acc' = ""
    /\ acc_ret' = NoRet
    /\ cm' = NoRet
    /\ UNCHANGED <<doc, gs, unit_in_centimeters, axisVars, sysVars, meshVars>>

\* GlobalSettings::unit_scale_factor()
CallUnitScaleFactor ==
    /\ gs.kind = "Ok"
    /\ acc' = "UnitScaleFactor"
    /\ acc_ret' = unit_scale_factor_raw(doc, gs.value)
    /\ usf' = unit_scale_factor(doc, gs.value)
    /\ cm' = NoRet
    /\ UNCHANGED <<doc, gs, unit_in_centimeters, axisVars, sysVars, meshVars>>

\* UnitScaleFactor::unit_in_centimeters() on the value just made
CallUnitInCentimeters ==
    /\ usf.kind = "Ok"
    /\ cm = NoRet
    /\ cm' = Some(UnitScaleFactor_unit_in_centimeters(usf.value))
    /\ UNCHANGED <<doc, gs, acc, acc_ret, unit_in_centimeters, usf, axisVars, sysVars, meshVars>>

NextScale ==
    CallUnitScaleFactorNew \/ CallUnitScaleFactor \/ CallUnitInCentimeters

SpecScale == InitScale /\ [][NextScale]_vars

-----------------------------------------------------------------------------
(* The axis system: Spec *)

\* SignedAxis::axis
SignedAxis_axis(a) ==
    CASE a \in {"PosX", "NegX"} -> "X"
      [] a \in {"PosY", "NegY"} -> "Y"
      [] a \in {"PosZ", "NegZ"} -> "Z"

\* Display of a SignedAxis
SignedAxis_display(a) ==
    CASE a = "PosX" -> "+X" [] a = "NegX" -> "-X"
      [] a = "PosY" -> "+Y" [] a = "NegY" -> "-Y"
      [] a = "PosZ" -> "+Z" [] a = "NegZ" -> "-Z"

\* AxisSystem::from_up_front_right: the three must be three different axes
from_up_front_right(up, front, right) ==
    IF \/ SignedAxis_axis(up) = SignedAxis_axis(front)
       \/ SignedAxis_axis(front) = SignedAxis_axis(right)
       \/ SignedAxis_axis(right) = SignedAxis_axis(up)
    THEN None
    ELSE Some([up |-> up, front |-> front, right |-> right])

\* the error of axis_system for a triple that is no axis system
InvalidAxisSystemMsg(up, front, right) ==
    "invalid axis system: (up, front, right) = (" \o SignedAxis_display(up)
        \o ", " \o SignedAxis_display(front)
        \o ", " \o SignedAxis_display(right) \o ")"

\* the axis names of up_axis, front_axis, right_axis, in the order
\* axis_system calls them
AxisOrder == <<"Up", "Front", "Coord">>

\* what a property of the document of this family may be: absent, a string,
\* or an i32
CodeChoices ==
    {None, Some(Str("Y"))} \cup { Some(I32(v)) : v \in 0..MaxDocAxis }
SignChoices ==
    {None, Some(Str("+"))} \cup { Some(I32(v)) : v \in -1..MaxDocSign }

AxisKeys ==
    <<"UpAxis", "UpAxisSign", "FrontAxis", "FrontAxisSign",
      "CoordAxis", "CoordAxisSign">>

\* the property node holding choice c[i] under AxisKeys[i], where present
AxisProps(c) ==
    [k \in { AxisKeys[i] : i \in { j \in 1..6 : c[j].kind = "Some" } } |->
        c[CHOOSE i \in 1..6 : AxisKeys[i] = k].value]

Init ==
    /\ \E cu, cf, cc \in CodeChoices, su, sf, sc \in SignChoices :
          doc = SettingsDoc(AxisProps(<<cu, su, cf, sf, cc, sc>>))
    /\ gs = GlobalSettings_new(doc)
    /\ acc = ""
    /\ acc_ret = NoRet
    /\ IdleAxis
    /\ IdleScale
    /\ IdleSys
    /\ IdleMesh

\* GlobalSettings::axis_system is entered
CallAxisSystem ==
    /\ pc = "idle"
    /\ gs.kind = "Ok"
    /\ pc' = "code"
    /\ UNCHANGED <<cur, code_v, sign_v, axes, log, sys_ret>>
    /\ UNCHANGED <<docVars, axisVars, scaleVars, meshVars>>

\* self.<axis>_axis_raw()?
LookupCode ==
    /\ pc = "code"
    /\ LET r == raw_accessor(doc, gs.value, AxisOrder[cur] \o "Axis") IN
          /\ log' = Append(log, <<AxisOrder[cur], "code">>)
          /\ IF r.kind = "Ok"
             THEN code_v' = r.value /\ pc' = "sign" /\ sys_ret' = sys_ret
             ELSE code_v' = code_v /\ pc' = "done" /\ sys_ret' = r
    /\ UNCHANGED <<cur, sign_v, axes>>
    /\ UNCHANGED <<docVars, axisVars, scaleVars, meshVars>>

\* self.<axis>_axis_sign_raw()?
LookupSign ==
    /\ pc = "sign"
    /\ LET r == raw_accessor(doc, gs.value, AxisOrder[cur] \o "AxisSign") IN
          /\ log' = Append(log, <<AxisOrder[cur], "sign">>)
          /\ IF r.kind = "Ok"
             THEN sign_v' = r.value /\ pc' = "decode" /\ sys_ret' = sys_ret
             ELSE sign_v' = sign_v /\ pc' = "done" /\ sys_ret' = r
    /\ UNCHANGED <<cur, code_v, axes>>
    /\ UNCHANGED <<docVars, axisVars, scaleVars, meshVars>>

\* load_axis_from_prop(name, code, sign)? ; the next axis, or the check of
\* the triple after the third
DecodeAxis ==
    /\ pc = "decode"
    /\ LET r == load_axis_from_prop(AxisOrder[cur], code_v, sign_v) IN
          /\ log' = Append(log, <<AxisOrder[cur], "decode">>)
          /\ IF r.kind = "Ok"
             THEN /\ axes' = Append(axes, r.value)
                  /\ pc' = IF cur = 3 THEN "check" ELSE "code"
                  /\ cur' = IF cur = 3 THEN cur ELSE cur + 1
                  /\ sys_ret' = sys_ret
             ELSE /\ axes' = axes
                  /\ pc' = "done"
                  /\ cur' = cur
                  /\ sys_ret' = r
    /\ UNCHANGED <<code_v, sign_v>>
    /\ UNCHANGED <<docVars, axisVars, scaleVars, meshVars>>

\* AxisSystem::from_up_front_right(up, front, right).ok_or_else(..)
CheckAxisSystem ==
    /\ pc = "check"
    /\ LET r == from_up_front_right(axes[1], axes[2], axes[3]) IN
          sys_ret' = IF r.kind = "Some" THEN Ok(r.value)
                     ELSE Err(InvalidAxisSystemMsg(axes[1], axes[2], axes[3]))
    /\ pc' = "done"
    /\ UNCHANGED <<cur, code_v, sign_v, axes, log>>
    /\ UNCHANGED <<docVars, axisVars, scaleVars, meshVars>>

\* the signed-axis accessor of the given axis name
signed_axis_accessor(d, g, name) ==
    CASE name = "Up" -> up_axis(d, g)
      [] name = "Front" -> front_axis(d, g)
      [] name = "Coord" -> right_axis(d, g)
      [] name = "OriginalUp" -> original_up_axis(d, g)

\* up_axis, front_axis, right_axis or original_up_axis is called on its own
CallAxisAccessor ==
    /\ pc = "idle"
    /\ gs.kind = "Ok"
    /\ \E name \in AxisNames :
          /\ acc' = name
          /\ acc_ret' = signed_axis_accessor(doc, gs.value, name)
    /\ UNCHANGED <<doc, gs, axisVars, scaleVars, sysVars, meshVars>>

Next ==
    \/ CallAxisAccessor
    \/ CallAxisSystem
    \/ LookupCode
    \/ LookupSign
    \/ DecodeAxis
    \/ CheckAxisSystem

Spec == Init /\ [][Next]_vars

-----------------------------------------------------------------------------
(* Mesh index model: SpecMesh *)

\* Indices are 0-based as in the program; sequences are 1-based.

\* a complement that forgets the offset of two's complement
bitwise_not_negate(v) == -v

\* !v on an i32: in two's complement, -(v + 1)
bitwise_not(v) == -(v + 1)

\* the start offset of polygon p in the boundary table e
polygon_start(e, p) == IF p = 0 THEN 0 ELSE e[p]

\* the number of vertices of polygon p
polygon_len(e, p) == e[p + 1] - polygon_start(e, p)

\* PolygonVertices::polygon_count
polygon_count(e) == Len(e)

\* PolygonVertices::control_point_of
control_point_of(f, pvi) == f[pvi + 1]

\* PolygonVertices::polygon_of: the polygon whose range of the boundary
\* table holds the polygon vertex
polygon_of(e, pvi) ==
    CHOOSE p \in 0..(polygon_count(e) - 1) :
        polygon_start(e, p) <= pvi /\ pvi < e[p + 1]

\* PolygonVertices::vertices_of
vertices_of(f, e, p) ==
    [i \in 1..polygon_len(e, p) |->
        [polygon_vertex_index |-> polygon_start(e, p) + i - 1,
         polygon_index |-> p,
         control_point_index |-> control_point_of(f, polygon_start(e, p) + i - 1)]]

\* the index of the first triangle of polygon p: the polygons before it
\* hold polygon_start(p) vertices and two triangles less than vertices each
triangle_start(e, p) == polygon_start(e, p) - 2 * p

\* TriangleVertices: the number of triangles
triangle_count(e) == triangle_start(e, polygon_count(e))

\* the polygon a triangle belongs to
triangle_polygon(e, t) ==
    CHOOSE p \in 0..(polygon_count(e) - 1) :
        triangle_start(e, p) <= t /\ t < triangle_start(e, p + 1)

\* a fan that takes the vertices (v0, vk, v(k+1)), so that its first
\* triangle is degenerate
polygon_vertex_of_triangle_vertex_off_by_one(e, tvi) ==
    LET t == tvi \div 3
        j == tvi % 3
        pg == triangle_polygon(e, t)
        k == t - triangle_start(e, pg)
    IN  polygon_start(e, pg) + (IF j = 0 THEN 0 ELSE k + j - 1)

\* IntoPvWithTriVert: triangle vertex j of triangle k of a polygon is the
\* polygon's vertex 0 (j = 0) or k + j (j = 1, 2)
polygon_vertex_of_triangle_vertex(e, tvi) ==
    LET t == tvi \div 3
        j == tvi % 3
        pg == triangle_polygon(e, t)
        k == t - triangle_start(e, pg)
    IN  polygon_start(e, pg) + (IF j = 0 THEN 0 ELSE k + j)

\* IntoCpiWithTriVert: through the polygon vertex
control_point_of_triangle_vertex(f, e, tvi) ==
    control_point_of(f, polygon_vertex_of_triangle_vertex(e, tvi))

\* the polygon vertex one raw entry decodes to, and whether it closes the
\* polygon
decode_entry(v) ==
    IF v >= 0 THEN [control_point_index |-> v, is_end |-> FALSE]
    ELSE [control_point_index |-> bitwise_not(v), is_end |-> TRUE]

\* the control points raw buffers refer to
ControlPointIndices == {0, 1}

\* raw buffers: up to MaxRawLen entries, each a control point index or the
\* complement of one
RawValues == ControlPointIndices \cup { -(c + 1) : c \in ControlPointIndices }
RawBuffers == UNION { [1..n -> RawValues] : n \in 0..MaxRawLen }

InitMesh ==
    /\ raw \in RawBuffers
    /\ pos = 0
    /\ flat = <<>>
    /\ ends = <<>>
    /\ mesh_ret = NoRet
    /\ query = NoRet
    /\ IdleAxis
    /\ IdleDoc
    /\ IdleScale
    /\ IdleSys

\* the scan reads the next raw entry
ScanEntry ==
    /\ mesh_ret = NoRet
    /\ pos < Len(raw)
    /\ LET pv == decode_entry(raw[pos + 1])
           start == polygon_start(ends, Len(ends))
       IN  /\ flat' = Append(flat, pv.control_point_index)
           /\ IF ~pv.is_end
              THEN ends' = ends /\ mesh_ret' = NoRet
              ELSE IF pos + 1 - start < 3
              THEN /\ ends' = ends
                   /\ mesh_ret' = Err("MalformedIndexBuffer: polygon with fewer than 3 vertices")
              ELSE /\ ends' = Append(ends, pos + 1)
                   /\ mesh_ret' = NoRet
    /\ pos' = pos + 1
    /\ UNCHANGED <<raw, query, settingsVars>>

\* the scan reaches the end of the buffer
FinishScan ==
    /\ mesh_ret = NoRet
    /\ pos = Len(raw)
    /\ mesh_ret' = IF polygon_start(ends, Len(ends)) = Len(raw)
                   THEN Ok("PolygonVertices")
                   ELSE Err("MalformedIndexBuffer: buffer does not end on a polygon boundary")
    /\ UNCHANGED <<raw, pos, flat, ends, query, settingsVars>>

\* a polygon vertex index of the decoded mesh is converted
QueryPolygonVertex ==
    /\ mesh_ret.kind = "Ok"
    /\ \E pvi \in 0..(Len(flat) - 1) :
          query' = [of |-> "polygon_vertex", index |-> pvi,
                    polygon |-> polygon_of(ends, pvi),
                    control_point |-> control_point_of(flat, pvi)]
    /\ UNCHANGED <<raw, pos, flat, ends, mesh_ret, settingsVars>>

\* a triangle vertex index of the triangulated view is converted
QueryTriangleVertex ==
    /\ mesh_ret.kind = "Ok"
    /\ \E tvi \in 0..(3 * triangle_count(ends) - 1) :
          query' = [of |-> "triangle_vertex", index |-> tvi,
                    polygon_vertex |-> polygon_vertex_of_triangle_vertex(ends, tvi),
                    control_point |->
                        control_point_of_triangle_vertex(flat, ends, tvi)]
    /\ UNCHANGED <<raw, pos, flat, ends, mesh_ret, settingsVars>>

NextMesh ==
    \/ ScanEntry
    \/ FinishScan
    \/ QueryPolygonVertex
    \/ QueryTriangleVertex

SpecMesh == InitMesh /\ [][NextMesh]_vars

-----------------------------------------------------------------------------
(* Claims about the axis decoding rule, checked under SpecAxis *)

ValidAxis(a) == a \in {0, 1, 2}
ValidAxisSign(s) == s \in {1, -1}
Called == axis_ret # NoRet

\* C1: for an axis code in {0,1,2} and an axis sign that is neither 1 nor -1
\* the call returns the error naming the <name>AxisSign property and the
\* offending sign; it returns no signed axis and does not abort.
C1_SignErrorReturned ==
    (Called /\ ValidAxis(axis) /\ ~ValidAxisSign(axis_sign))
        => axis_ret = Err(InvalidAxisSignMsg(axis_name, axis_sign))

\* C2: the call never reaches its unreachable! branch: it always returns
\* Ok or Err.
C2_NeverUnreachable ==
    Called => axis_ret.kind \in {"Ok", "Err"}

SignedAxisTable(a, s) ==
    CASE a = 0 -> IF s = 1 THEN "PosX" ELSE "NegX"
      [] a = 1 -> IF s = 1 THEN "PosY" ELSE "NegY"
      [] a = 2 -> IF s = 1 THEN "PosZ" ELSE "NegZ"

\* C3: the six pairs (axis in {0,1,2}, sign in {1,-1}) return Ok with the
\* signed axis of the table 0->X, 1->Y, 2->Z, 1->positive, -1->negative,
\* whatever the axis name; no other pair returns Ok.
C3_SixValidPairs ==
    Called =>
        /\ (ValidAxis(axis) /\ ValidAxisSign(axis_sign))
              => axis_ret = Ok(SignedAxisTable(axis, axis_sign))
        /\ axis_ret.kind = "Ok" => (ValidAxis(axis) /\ ValidAxisSign(axis_sign))

C3_Witness ==
    /\ axis = 2 /\ axis_sign = -1 /\ axis_name = "OriginalUp"
    /\ axis_ret = Ok("NegZ")

\* C4: for an axis code outside {0,1,2} and any axis sign the call returns
\* the error naming the <name>Axis property and the offending code, never
\* the sign error.
C4_AxisErrorFirst ==
    (Called /\ ~ValidAxis(axis))
        => axis_ret = Err(InvalidAxisMsg(axis_name, axis))

C4_Witness ==
    /\ axis = 3 /\ axis_sign = 2 /\ axis_name = "Coord"
    /\ axis_ret = Err("invalid 'CoordAxis' property value: expected 0, 1, or 2 but got 3")

-----------------------------------------------------------------------------
(* Claims about construction and property resolution, checked under SpecProps *)

\* the root children named GlobalSettings
GlobalSettingsChildren(d) ==
    { i \in 1..Len(d.root) : d.root[i].name = "GlobalSettings" }

\* the first of them
FirstGlobalSettings(d) ==
    d.root[CHOOSE i \in GlobalSettingsChildren(d) :
               \A j \in GlobalSettingsChildren(d) : i <= j]

\* the direct scope: the Properties70 child of the first /GlobalSettings
DirectScope(d) ==
    LET c == FirstGlobalSettings(d).children
        own == { i \in 1..Len(c) : c[i].name = "Properties70" }
    IN  IF own = {} THEN None
        ELSE Some(c[CHOOSE i \in own : \A j \in own : i <= j].node_id)

\* the default scope: the template of (GlobalSettings, FbxGlobalSettings)
DefaultScope(d) ==
    LET t == { e \in d.definitions_cache :
                  /\ e.node_name = "GlobalSettings"
                  /\ e.native_typename = "FbxGlobalSettings" }
    IN  IF t = {} THEN None ELSE Some((CHOOSE e \in t : TRUE).props)

ScopeHolds(d, scope, key) ==
    scope.kind = "Some" /\ key \in DOMAIN d.props[scope.value]

\* C6: a key read through the proxy resolves to the direct scope's value
\* when the direct scope is present and holds it (even if the default scope
\* holds it too), else to the default scope's value when that scope is
\* present and holds it, else the accessor fails with the not-found error
\* naming the key.
C6_DirectThenDefault ==
    acc_ret # NoRet =>
        IF ScopeHolds(doc, DirectScope(doc), acc)
        THEN acc_ret = Ok(doc.props[DirectScope(doc).value][acc].val)
        ELSE IF ScopeHolds(doc, DefaultScope(doc), acc)
        THEN acc_ret = Ok(doc.props[DefaultScope(doc).value][acc].val)
        ELSE acc_ret = Err("expected '" \o acc \o "' property but not found")

\* both scopes hold the key with different values and the direct one wins
C6_Witness ==
    /\ acc = "UpAxis"
    /\ ScopeHolds(doc, DirectScope(doc), acc)
    /\ ScopeHolds(doc, DefaultScope(doc), acc)
    /\ doc.props[DirectNode][acc] = I32(1)
    /\ doc.props[TemplateNode][acc] = I32(0)
    /\ acc_ret = Ok(1)

\* C7: GlobalSettings::new fails exactly when the root has no child named
\* GlobalSettings; a missing Properties70 child and a missing template are
\* accepted and leave the direct and/or default scope absent.
C7_NewFailsIffNoNode ==
    gs # NoRet =>
        /\ gs.kind \in {"Ok", "Err"}
        /\ gs.kind = "Err" <=> GlobalSettingsChildren(doc) = {}
        /\ gs.kind = "Ok" =>
              /\ gs.value.props.direct_props = DirectScope(doc)
              /\ gs.value.props.default_props = DefaultScope(doc)

\* a proxy built with neither scope
C7_Witness ==
    /\ gs.kind = "Ok"
    /\ Len(doc.root) = 2
    /\ doc.root[2].name = "GlobalSettings"
    /\ gs.value.props.direct_props = None
    /\ gs.value.props.default_props = None

-----------------------------------------------------------------------------
(* Claims about the unit scale factor, checked under SpecScale *)

\* the IEEE 754 "normal" category: neither the all-zeros nor the all-ones
\* exponent field
IeeeNormal(x) == 1 <= x.exponent /\ x.exponent <= 2046

\* C5: UnitScaleFactor::new(x) returns Ok exactly when x is an IEEE normal
\* float (either sign) and Err when x is zero, subnormal, infinite or NaN;
\* on Ok, unit_in_centimeters() returns x unchanged; every UnitScaleFactor
\* that exists holds a normal float.
C5_NormalOnly ==
    /\ (usf # NoRet /\ acc = "") =>
          /\ IeeeNormal(unit_in_centimeters) => usf.kind = "Ok"
          /\ ~IeeeNormal(unit_in_centimeters) => usf.kind = "Err"
          /\ cm # NoRet => cm = Some(unit_in_centimeters)
    /\ usf.kind = "Ok" => IeeeNormal(usf.value.unit_in_centimeters)

\* -1.0 was accepted and read back
C5_Witness ==
    /\ acc = ""
    /\ unit_in_centimeters = [sign |-> 1, exponent |-> 1023, mantissa |-> 0]
    /\ usf.kind = "Ok"
    /\ cm = Some(unit_in_centimeters)

-----------------------------------------------------------------------------
(* Claims about axis_system, checked under Spec *)

\* the nine steps of axis_system in their fixed order
FixedOrder ==
    <<<<"Up", "code">>, <<"Up", "sign">>, <<"Up", "decode">>,
      <<"Front", "code">>, <<"Front", "sign">>, <<"Front", "decode">>,
      <<"Coord", "code">>, <<"Coord", "sign">>, <<"Coord", "decode">>>>

\* the properties /GlobalSettings/Properties70 holds
Stored == doc.props[DirectNode]

StepKey(n) ==
    FixedOrder[n][1] \o (IF FixedOrder[n][2] = "sign" THEN "AxisSign" ELSE "Axis")

LookupFails(key) == key \notin DOMAIN Stored \/ Stored[key].tag # "I32"

\* whether step n fails, given that the steps before it did not
StepFails(n) ==
    IF FixedOrder[n][2] = "decode"
    THEN ~(/\ ValidAxis(Stored[StepKey(n - 2)].val)
           /\ ValidAxisSign(Stored[StepKey(n - 1)].val))
    ELSE LookupFails(StepKey(n))

\* the first failing step, 0 when all nine succeed
FirstFailure ==
    IF \E n \in 1..9 : (\A m \in 1..(n - 1) : ~StepFails(m)) /\ StepFails(n)
    THEN CHOOSE n \in 1..9 : (\A m \in 1..(n - 1) : ~StepFails(m)) /\ StepFails(n)
    ELSE 0

\* the error step n reports when it fails
StepError(n) ==
    IF FixedOrder[n][2] = "decode"
    THEN IF ~ValidAxis(Stored[StepKey(n - 2)].val)
         THEN Err(InvalidAxisMsg(FixedOrder[n][1], Stored[StepKey(n - 2)].val))
         ELSE Err(InvalidAxisSignMsg(FixedOrder[n][1], Stored[StepKey(n - 1)].val))
    ELSE IF StepKey(n) \notin DOMAIN Stored
         THEN Err("expected '" \o StepKey(n) \o "' property but not found")
         ELSE Err("property type mismatch: expected i32 but got "
                      \o Stored[StepKey(n)].tag)

\* the axis step n decodes
StepAxis(n) ==
    SignedAxisTable(Stored[StepKey(n - 2)].val, Stored[StepKey(n - 1)].val)

\* the document of the end-to-end example
ExampleProps ==
    [UpAxis |-> I32(1), UpAxisSign |-> I32(1), FrontAxis |-> I32(2),
     FrontAxisSign |-> I32(1), CoordAxis |-> I32(0), CoordAxisSign |-> I32(1)]

\* C10: axis_system evaluates up, front, right, and for each the code
\* lookup, the sign lookup, the decode; it returns the error of the first
\* step that fails and performs no later step; when all three axes decoded
\* it returns the axis system of exactly those axes or an error embedding
\* all three; the example document decodes to up=+Y, front=+Z, right=+X.
C10_FixedOrderFirstError ==
    pc = "done" =>
        /\ FirstFailure # 0 =>
              /\ log = SubSeq(FixedOrder, 1, FirstFailure)
              /\ sys_ret = StepError(FirstFailure)
        /\ FirstFailure = 0 =>
              /\ log = FixedOrder
              /\ axes = <<StepAxis(3), StepAxis(6), StepAxis(9)>>
              /\ \/ sys_ret = Ok([up |-> axes[1], front |-> axes[2],
                                  right |-> axes[3]])
                 \/ sys_ret = Err(InvalidAxisSystemMsg(axes[1], axes[2], axes[3]))
        /\ Stored = ExampleProps =>
              sys_ret = Ok([up |-> "PosY", front |-> "PosZ", right |-> "PosX"])

-----------------------------------------------------------------------------
(* Claims about the mesh index model, checked under SpecMesh *)

\* the positions (1-based) of the negative raw entries
NegPositions == { i \in 1..Len(raw) : raw[i] < 0 }

\* the polygon (0-based) position i belongs to: one per negative entry
\* before it
RefPolygon(i) == Cardinality({ j \in NegPositions : j < i })

\* the control point position i refers to
RefControlPoint(i) == IF raw[i] >= 0 THEN raw[i] ELSE (-1) - raw[i]

\* the positions of polygon p
RefPositions(p) == { i \in 1..Len(raw) : RefPolygon(i) = p }

\* the position of vertex number n (0-based) of polygon p
RefVertex(p, n) ==
    CHOOSE i \in RefPositions(p) :
        Cardinality({ j \in RefPositions(p) : j < i }) = n

\* C8: decoding a well-formed raw buffer yields a flat polygon-vertex
\* sequence of the same length whose entry i refers to control point raw[i]
\* when raw[i] >= 0 and to the complement of raw[i] when raw[i] < 0; a
\* polygon ends exactly at each negative entry, so the polygon count is the
\* number of negative entries, and polygon_of / control_point_of of every
\* polygon vertex agree with this scan.
C8_DecodeMatchesScan ==
    mesh_ret.kind = "Ok" =>
        /\ Len(flat) = Len(raw)
        /\ \A i \in 1..Len(raw) :
              /\ control_point_of(flat, i - 1) = RefControlPoint(i)
              /\ polygon_of(ends, i - 1) = RefPolygon(i)
        /\ { ends[p] : p \in 1..Len(ends) } = NegPositions
        /\ polygon_count(ends) = Cardinality(NegPositions)
        /\ \A p \in 0..(polygon_count(ends) - 1) :
              /\ Len(vertices_of(flat, ends, p)) = Cardinality(RefPositions(p))
              /\ \A n \in 1..Len(vertices_of(flat, ends, p)) :
                    vertices_of(flat, ends, p)[n] =
                        [polygon_vertex_index |-> RefVertex(p, n - 1) - 1,
                         polygon_index |-> p,
                         control_point_index |->
                             RefControlPoint(RefVertex(p, n - 1))]
        /\ (query # NoRet /\ query.of = "polygon_vertex") =>
              /\ query.polygon = RefPolygon(query.index + 1)
              /\ query.control_point = RefControlPoint(query.index + 1)

\* the last vertex of the second of two triangles was converted: it is the
\* complement-encoded entry
C8_Witness ==
    /\ mesh_ret.kind = "Ok"
    /\ raw = <<0, 1, -1, 1, 0, -2>>
    /\ query # NoRet
    /\ query.of = "polygon_vertex"
    /\ query.index = 5
    /\ query.polygon = 1
    /\ query.control_point = 1

\* the triangles of polygon p
TrianglesOf(p) ==
    { t \in 0..(triangle_count(ends) - 1) : triangle_polygon(ends, t) = p }

\* the fan: vertex j of triangle k is polygon vertex 0, k+1, k+2
Fan(k, j) == IF j = 0 THEN 0 ELSE k + j

\* C9: a polygon of n >= 3 vertices v0..v(n-1) yields exactly n-2
\* triangles, triangle k being (v0, v(k+1), v(k+2)) in that order, and the
\* control point of each triangle vertex is the control point of its
\* polygon vertex.
C9_FanTriangulation ==
    mesh_ret.kind = "Ok" =>
        /\ \A p \in 0..(Cardinality(NegPositions) - 1) :
              LET n == Cardinality(RefPositions(p))
                  first == CHOOSE t \in TrianglesOf(p) :
                               \A u \in TrianglesOf(p) : t <= u
              IN  /\ n >= 3
                  /\ Cardinality(TrianglesOf(p)) = n - 2
                  /\ TrianglesOf(p) = first..(first + n - 3)
                  /\ \A k \in 0..(n - 3), j \in 0..2 :
                        LET tvi == 3 * (first + k) + j IN
                        /\ polygon_vertex_of_triangle_vertex(ends, tvi)
                              = RefVertex(p, Fan(k, j)) - 1
                        /\ control_point_of_triangle_vertex(flat, ends, tvi)
                              = RefControlPoint(RefVertex(p, Fan(k, j)))
        /\ (query # NoRet /\ query.of = "triangle_vertex") =>
              /\ query.polygon_vertex \in 0..(Len(raw) - 1)
              /\ query.control_point = RefControlPoint(query.polygon_vertex + 1)

\* the third vertex of the second triangle of a quad that follows a
\* triangle was converted: it is the quad's v3
C9_Witness ==
    /\ mesh_ret.kind = "Ok"
    /\ raw = <<0, 0, -1, 0, 0, 0, -2>>
    /\ query # NoRet
    /\ query.of = "triangle_vertex"
    /\ query.index = 8
    /\ query.polygon_vertex = 6
    /\ query.control_point = 1

=============================================================================
